---- MODULE Spec2Model ----
(***************************************************************************)
(* Model of pyleecan's gen_3D_mesh (Functions/GMSH/gen_3D_mesh.py): the    *)
(* orchestration that turns one tooth boundary into a tagged, extruded 3D  *)
(* lamination through the gmsh geometry kernel.                            *)
(*                                                                         *)
(* One run of gen_3D_mesh is a sequential process; pc is the statement the *)
(* run is at.  Every gmsh call is one step, so that a call raising an      *)
(* exception can interrupt the run between any two calls.  The gmsh        *)
(* session is recorded by the primitives it has been asked to create.      *)
(***************************************************************************)
EXTENDS Integers, Sequences, FiniteSets, TLC

\* ------------------------------------------------------------------ bounds
MaxSeg == 3
MaxZs == 3
MaxL == 2
MaxNlayer == 2
\* number of distinct material names
MaxNames == 2
\* largest value a numeric widget of the material dialog holds
MaxVal == 1

\* --------------------------------------------------------------- constants
\* denominator of the literal rotation step 2 * pi / 36
PitchDen == 36

\* kinds of the objects get_lines() may return: a Segment, an Arc (Arc1,
\* Arc2, Arc3) or an object of another class
Kinds == {"line", "arc", "other"}

Boundaries == UNION {[1..n -> Kinds] : n \in 0..MaxSeg}

VARIABLES
    \* inputs of the run
    lines,        \* tooth_surf.get_lines(), by kind
    L,            \* lamination.L1
    Zs,           \* lamination.slot.Zs
    is_stator,    \* lamination.is_stator
    Nlayer,       \* Nlayer argument
    \* locals of gen_3D_mesh
    pc, NPoint, NLine, ii, ov, surf_list, surf_idx,
    \* the gmsh session
    initialized, finalized,
    points,       \* points added: [tag, seg, role]
    curves,       \* curves added: [kind, start, center, end, tag]
    loops,        \* curve loops added: [tag, curves]
    surfaces,     \* tags of the plane surfaces, in creation order
    rotations,    \* rotate calls: [surf, num, den], angle = num * 2pi / den
    extrusions,   \* extrude calls: [surf, dx, dy, dz, numElements, vol]
    groups,       \* physical groups added: [dim, ents, id]
    names,        \* physical names set: [dim, id, name]
    synced, meshed, written,
    calls,        \* names of the gmsh calls issued so far, in order
    failed        \* the gmsh call that raised, "none" if none did

\* ---------------------------------------------------------------------------
\* The material dialog DMatSetup (GUI/Dialog/DMatLib/DMatSetup/DMatSetup.py).
\* Each slot of the dialog runs to completion, so each is one step.
VARIABLES
    connected,        \* __init__ has connected the widget signals to the slots
    is_save_needed,   \* self.is_save_needed
    init_name,        \* self.init_name, 0 for None
    init_path,        \* self.init_path
    mat,              \* self.mat
    le_name,          \* text of the name line edit, 0 for the empty text
    cb_material_type, \* current index of the material type combo box
    nav_meca, nav_ther, \* current index of the two stacked pages
    b_save, b_cancel, \* enabled state of the two buttons
    emitted,          \* signals the dialog emitted during the last step
    last              \* the last step and its inputs

dlg == <<connected, is_save_needed, init_name, init_path, mat, le_name,
         cb_material_type, nav_meca, nav_ther, b_save, b_cancel, emitted, last>>

\* self.mat = None
NoMat == [none |-> TRUE]
\* a path is a directory and the name of the json file in it
NoPath == [dir |-> "None", name |-> 0]
\* no step yet; text is what the edited widget holds when its handler runs
NoStep ==
    [op |-> "none", v |-> FALSE, text |-> 0, reply |-> "none", exists |-> FALSE,
     fired |-> FALSE, material |-> NoMat]

\* the dialog before DMatSetup is constructed
DlgIdle ==
    /\ connected = FALSE
    /\ is_save_needed = FALSE
    /\ init_name = 0 /\ init_path = NoPath
    /\ mat = NoMat
    /\ le_name = 0
    /\ cb_material_type = 0
    /\ nav_meca = 0 /\ nav_ther = 0
    /\ b_save = FALSE /\ b_cancel = FALSE
    /\ emitted = <<>>
    /\ last = NoStep

inputs == <<lines, L, Zs, is_stator, Nlayer>>
locals == <<NPoint, NLine, ii, ov, surf_list, surf_idx>>
geo == <<points, curves, loops, surfaces, rotations, extrusions>>
tags == <<groups, names>>
flags == <<initialized, finalized, synced, meshed, written>>
mesh == <<inputs, pc, locals, geo, tags, flags, calls, failed>>
vars == <<mesh, dlg>>

\* ----------------------------------------------------------------- helpers
\* list(range(a, b))
Range(a, b) == [j \in 1..(b - a) |-> a + j - 1]

\* variant: no segment is recognized as an arc
IsArcNever(line) == FALSE

\* isinstance(line, Arc)
IsArc(line) == line = "arc"

\* variant: the last curve ends at a handle past the last point
EndHandleNoWrap(k, n) == k + 1

\* end point handle of curve number k out of n
EndHandle(k, n) == IF k = n THEN 1 ELSE k + 1

\* rotation of the copy made in iteration i of the copy loop
RotateAngle(i) == [num |-> i + 1, den |-> PitchDen]

\* tag the kernel gives to a new surface: the next unused one
NewSurface == Len(surfaces) + 1

\* tag the kernel gives to the volume of a new extrusion
NewVolume == Len(extrusions) + 1

\* bound of the copy loop, range(Zs)
CopyCount == Zs

\* variant: the group is given the copies only
LaminationEntsCopiesOnly == Tail(surf_list)

\* entities of the "Lamination" physical group
LaminationEnts == surf_list

\* entities of the dimension 3 physical group
VolumeRange == Range(1, Zs + 1)

\* variant: the two names are exchanged
VolumeNameSwapped == IF is_stator THEN "rotor" ELSE "stator"

\* name of the dimension 3 physical group
VolumeName == IF is_stator THEN "stator" ELSE "rotor"

\* variant: the center of every arc is taken one point ahead
CenterHandleAhead(k, n, np) == np + 1

\* center point handle of arc number k out of n, np points created so far
CenterHandle(k, n, np) == IF k = n THEN np - 1 ELSE np

\* variant: every extrusion is of the tooth surface
ExtrudeCallTooth(surf) ==
    [surf |-> 1, dx |-> 0, dy |-> 0, dz |-> L, numElements |-> Nlayer,
     vol |-> NewVolume]

\* the arguments of one extrude call
ExtrudeCall(surf) ==
    [surf |-> surf, dx |-> 0, dy |-> 0, dz |-> L, numElements |-> Nlayer,
     vol |-> NewVolume]

\* variant: the exception is swallowed and the run goes on at the same call
OnRaiseSwallow(next) == next

\* where control goes when a gmsh call raises: nothing catches it
OnRaise(next) == "raised"

CallSites ==
    {"initialize", "setNumber", "model_add", "addPoint", "addCenter",
     "addCircleArc", "addLine", "addCurveLoop", "addPlaneSurface",
     "group_tooth", "name_tooth", "copy", "rotate", "group_lamination",
     "name_lamination", "extrude", "group_volume", "name_volume",
     "synchronize", "generate", "write", "finalize"}

\* the gmsh function called at each call site
OpAt(site) ==
    CASE site \in {"addPoint", "addCenter"} -> "addPoint"
      [] site \in {"group_tooth", "group_lamination", "group_volume"} -> "addPhysicalGroup"
      [] site \in {"name_tooth", "name_lamination", "name_volume"} -> "setPhysicalName"
      [] OTHER -> site

\* the call log: each gmsh call is logged by its call site when it is issued
Call(site) == calls' = Append(calls, site)

\* -------------------------------------------------------------------- Init
Init ==
    /\ lines \in Boundaries
    /\ L \in 1..MaxL
    /\ Zs \in -1..MaxZs
    /\ is_stator \in BOOLEAN
    /\ Nlayer \in 1..MaxNlayer
    /\ pc = "initialize"
    /\ NPoint = 0 /\ NLine = 0 /\ ii = -1 /\ ov = 0
    /\ surf_list = <<>> /\ surf_idx = 0
    /\ initialized = FALSE /\ finalized = FALSE
    /\ points = <<>> /\ curves = <<>> /\ loops = <<>> /\ surfaces = <<>>
    /\ rotations = <<>> /\ extrusions = <<>>
    /\ groups = <<>> /\ names = <<>>
    /\ synced = FALSE /\ meshed = FALSE /\ written = FALSE
    /\ calls = <<>>
    /\ failed = "none"
    /\ DlgIdle

\* ----------------------------------------------------------------- actions
\* gmsh.initialize(sys.argv)
Initialize ==
    /\ pc = "initialize"
    /\ Call("initialize")
    /\ initialized' = TRUE
    /\ pc' = "setNumber"
    /\ UNCHANGED <<dlg, inputs, locals, geo, tags, finalized, synced, meshed, written, failed>>

\* gmsh.option.setNumber("General.Terminal", 1)
SetNumber ==
    /\ pc = "setNumber"
    /\ Call("setNumber")
    /\ pc' = "model_add"
    /\ UNCHANGED <<dlg, inputs, locals, geo, tags, flags, failed>>

\* model.add("Pyleecan"); NPoint = 0
ModelAdd ==
    /\ pc = "model_add"
    /\ Call("model_add")
    /\ pc' = "for_point"
    /\ UNCHANGED <<dlg, inputs, locals, geo, tags, flags, failed>>

\* for line in tooth_surf.get_lines(): Z = line.get_begin(); NPoint += 1
ForPoint ==
    /\ pc = "for_point"
    /\ IF NPoint < Len(lines)
       THEN /\ NPoint' = NPoint + 1
            /\ pc' = "addPoint"
       ELSE /\ NPoint' = NPoint
            /\ pc' = "for_line"
    /\ UNCHANGED <<dlg, inputs, NLine, ii, ov, surf_list, surf_idx, geo, tags, flags, calls, failed>>

\* factory.addPoint(Z.real, Z.imag, -L / 2, mesh_size, NPoint)
AddPoint ==
    /\ pc = "addPoint"
    /\ Call("addPoint")
    /\ points' = Append(points, [tag |-> NPoint, seg |-> NPoint, role |-> "begin"])
    /\ pc' = "for_point"
    /\ UNCHANGED <<dlg, inputs, locals, curves, loops, surfaces, rotations, extrusions,
                   tags, flags, failed>>

\* for line in tooth_surf.get_lines(): NLine += 1; the isinstance dispatch;
\* for an arc: Zc = line.get_center(); NPoint += 1
ForLine ==
    /\ pc = "for_line"
    /\ IF NLine < Len(lines)
       THEN /\ NLine' = NLine + 1
            /\ IF IsArc(lines[NLine + 1])
               THEN /\ NPoint' = NPoint + 1
                    /\ pc' = "addCenter"
               ELSE /\ NPoint' = NPoint
                    /\ pc' = "addLine"
       ELSE /\ NLine' = NLine
            /\ NPoint' = NPoint
            /\ pc' = "addCurveLoop"
    /\ UNCHANGED <<dlg, inputs, ii, ov, surf_list, surf_idx, geo, tags, flags, calls, failed>>

\* factory.addPoint(Zc.real, Zc.imag, -L / 2, mesh_size, NPoint)
AddCenter ==
    /\ pc = "addCenter"
    /\ Call("addCenter")
    /\ points' = Append(points, [tag |-> NPoint, seg |-> NLine, role |-> "center"])
    /\ pc' = "addCircleArc"
    /\ UNCHANGED <<dlg, inputs, locals, curves, loops, surfaces, rotations, extrusions,
                   tags, flags, failed>>

\* factory.addCircleArc(NLine, NPoint - 1, 1, NLine) for the last line,
\* factory.addCircleArc(NLine, NPoint, NLine + 1, NLine) otherwise
AddCircleArc ==
    /\ pc = "addCircleArc"
    /\ Call("addCircleArc")
    /\ curves' = Append(curves,
          [kind |-> "arc", start |-> NLine,
           center |-> CenterHandle(NLine, Len(lines), NPoint),
           end |-> EndHandle(NLine, Len(lines)), tag |-> NLine])
    /\ pc' = "for_line"
    /\ UNCHANGED <<dlg, inputs, locals, points, loops, surfaces, rotations, extrusions,
                   tags, flags, failed>>

\* factory.addLine(NLine, 1, NLine) for the last line,
\* factory.addLine(NLine, NLine + 1, NLine) otherwise
AddLine ==
    /\ pc = "addLine"
    /\ Call("addLine")
    /\ curves' = Append(curves,
          [kind |-> "line", start |-> NLine, center |-> 0,
           end |-> EndHandle(NLine, Len(lines)), tag |-> NLine])
    /\ pc' = "for_line"
    /\ UNCHANGED <<dlg, inputs, locals, points, loops, surfaces, rotations, extrusions,
                   tags, flags, failed>>

\* gmsh.model.geo.addCurveLoop(list(range(1, NLine + 1)), 1)
AddCurveLoop ==
    /\ pc = "addCurveLoop"
    /\ Call("addCurveLoop")
    /\ loops' = Append(loops, [tag |-> 1, curves |-> Range(1, NLine + 1)])
    /\ pc' = "addPlaneSurface"
    /\ UNCHANGED <<dlg, inputs, locals, points, curves, surfaces, rotations, extrusions,
                   tags, flags, failed>>

\* gmsh.model.geo.addPlaneSurface([1], 1)
AddPlaneSurface ==
    /\ pc = "addPlaneSurface"
    /\ Call("addPlaneSurface")
    /\ surfaces' = Append(surfaces, 1)
    /\ pc' = "group_tooth"
    /\ UNCHANGED <<dlg, inputs, locals, points, curves, loops, rotations, extrusions,
                   tags, flags, failed>>

\* gmsh.model.addPhysicalGroup(2, [1], 1)
GroupTooth ==
    /\ pc = "group_tooth"
    /\ Call("group_tooth")
    /\ groups' = Append(groups, [dim |-> 2, ents |-> <<1>>, id |-> 1])
    /\ pc' = "name_tooth"
    /\ UNCHANGED <<dlg, inputs, locals, geo, names, flags, failed>>

\* gmsh.model.setPhysicalName(2, 1, "Tooth"); surf_list = [1]
NameTooth ==
    /\ pc = "name_tooth"
    /\ Call("name_tooth")
    /\ names' = Append(names, [dim |-> 2, id |-> 1, name |-> "Tooth"])
    /\ surf_list' = <<1>>
    /\ pc' = "for_copy"
    /\ UNCHANGED <<dlg, inputs, NPoint, NLine, ii, ov, surf_idx, geo, groups, flags, failed>>

\* for ii in range(Zs)
ForCopy ==
    /\ pc = "for_copy"
    /\ IF ii + 1 < CopyCount
       THEN /\ ii' = ii + 1
            /\ pc' = "copy"
       ELSE /\ ii' = ii
            /\ pc' = "group_lamination"
    /\ UNCHANGED <<dlg, inputs, NPoint, NLine, ov, surf_list, surf_idx, geo, tags, flags,
                   calls, failed>>

\* ov = factory.copy([(2, 1)])
Copy ==
    /\ pc = "copy"
    /\ Call("copy")
    /\ ov' = NewSurface
    /\ surfaces' = Append(surfaces, NewSurface)
    /\ pc' = "rotate"
    /\ UNCHANGED <<dlg, inputs, NPoint, NLine, ii, surf_list, surf_idx, points, curves, loops,
                   rotations, extrusions, tags, flags, failed>>

\* factory.rotate(ov, 0, 0, -L / 2, 0, 0, 1, (ii + 1) * 2 * pi / 36)
\* surf_list.append(ov[0][1])
Rotate ==
    /\ pc = "rotate"
    /\ Call("rotate")
    /\ rotations' = Append(rotations,
          [surf |-> ov, num |-> RotateAngle(ii).num, den |-> RotateAngle(ii).den])
    /\ surf_list' = Append(surf_list, ov)
    /\ pc' = "for_copy"
    /\ UNCHANGED <<dlg, inputs, NPoint, NLine, ii, ov, surf_idx, points, curves, loops,
                   surfaces, extrusions, tags, flags, failed>>

\* gmsh.model.addPhysicalGroup(2, surf_list, 2)
GroupLamination ==
    /\ pc = "group_lamination"
    /\ Call("group_lamination")
    /\ groups' = Append(groups, [dim |-> 2, ents |-> LaminationEnts, id |-> 2])
    /\ pc' = "name_lamination"
    /\ UNCHANGED <<dlg, inputs, locals, geo, names, flags, failed>>

\* gmsh.model.setPhysicalName(2, 2, "Lamination")
NameLamination ==
    /\ pc = "name_lamination"
    /\ Call("name_lamination")
    /\ names' = Append(names, [dim |-> 2, id |-> 2, name |-> "Lamination"])
    /\ pc' = "for_surf"
    /\ UNCHANGED <<dlg, inputs, locals, geo, groups, flags, failed>>

\* for surf in surf_list
ForSurf ==
    /\ pc = "for_surf"
    /\ IF surf_idx < Len(surf_list)
       THEN /\ surf_idx' = surf_idx + 1
            /\ pc' = "extrude"
       ELSE /\ surf_idx' = surf_idx
            /\ pc' = "group_volume"
    /\ UNCHANGED <<dlg, inputs, NPoint, NLine, ii, ov, surf_list, geo, tags, flags,
                   calls, failed>>

\* ov = factory.extrude([(2, surf)], 0, 0, L, numElements=[Nlayer])
Extrude ==
    /\ pc = "extrude"
    /\ Call("extrude")
    /\ extrusions' = Append(extrusions, ExtrudeCall(surf_list[surf_idx]))
    /\ pc' = "for_surf"
    /\ UNCHANGED <<dlg, inputs, locals, points, curves, loops, surfaces, rotations,
                   tags, flags, failed>>

\* model.addPhysicalGroup(3, list(range(1, Zs + 1)), 1)
GroupVolume ==
    /\ pc = "group_volume"
    /\ Call("group_volume")
    /\ groups' = Append(groups, [dim |-> 3, ents |-> VolumeRange, id |-> 1])
    /\ pc' = "name_volume"
    /\ UNCHANGED <<dlg, inputs, locals, geo, names, flags, failed>>

\* variant: the mesh is written without being synchronized and generated
NameVolumeThenWrite ==
    /\ pc = "name_volume"
    /\ Call("name_volume")
    /\ names' = Append(names, [dim |-> 3, id |-> 1, name |-> VolumeName])
    /\ pc' = "write"
    /\ UNCHANGED <<dlg, inputs, locals, geo, groups, flags, failed>>

\* model.setPhysicalName(3, 1, "stator") or model.setPhysicalName(3, 1, "rotor")
NameVolume ==
    /\ pc = "name_volume"
    /\ Call("name_volume")
    /\ names' = Append(names,
          [dim |-> 3, id |-> 1, name |-> VolumeName])
    /\ pc' = "synchronize"
    /\ UNCHANGED <<dlg, inputs, locals, geo, groups, flags, failed>>

\* factory.synchronize()
Synchronize ==
    /\ pc = "synchronize"
    /\ Call("synchronize")
    /\ synced' = TRUE
    /\ pc' = "generate"
    /\ UNCHANGED <<dlg, inputs, locals, geo, tags, initialized, finalized, meshed, written, failed>>

\* gmsh.model.mesh.generate(3)
Generate ==
    /\ pc = "generate"
    /\ Call("generate")
    /\ meshed' = TRUE
    /\ pc' = "write"
    /\ UNCHANGED <<dlg, inputs, locals, geo, tags, initialized, finalized, synced, written, failed>>

\* gmsh.write(save_path)
Write ==
    /\ pc = "write"
    /\ Call("write")
    /\ written' = TRUE
    /\ pc' = "finalize"
    /\ UNCHANGED <<dlg, inputs, locals, geo, tags, initialized, finalized, synced, meshed, failed>>

\* gmsh.finalize(); the function returns
Finalize ==
    /\ pc = "finalize"
    /\ Call("finalize")
    /\ finalized' = TRUE
    /\ pc' = "done"
    /\ UNCHANGED <<dlg, inputs, locals, geo, tags, initialized, synced, meshed, written, failed>>

\* The gmsh call at the current call site raises: the call has no effect and
\* the exception leaves gen_3D_mesh, which has no try / except / finally.
BackendRaises ==
    /\ pc \in CallSites
    /\ Call(pc)
    /\ failed' = pc
    /\ pc' = OnRaise(pc)
    /\ UNCHANGED <<dlg, inputs, locals, geo, tags, flags>>

Next ==
    \/ Initialize \/ SetNumber \/ ModelAdd
    \/ ForPoint \/ AddPoint
    \/ ForLine \/ AddCenter \/ AddCircleArc \/ AddLine
    \/ AddCurveLoop \/ AddPlaneSurface \/ GroupTooth \/ NameTooth
    \/ ForCopy \/ Copy \/ Rotate \/ GroupLamination \/ NameLamination
    \/ ForSurf \/ Extrude \/ GroupVolume \/ NameVolume
    \/ Synchronize \/ Generate \/ Write \/ Finalize
    \/ BackendRaises

Spec == Init /\ [][Next]_vars

\* ------------------------------------------------------- position of a run
\* the run returned normally
Done == pc = "done"
\* the run was left by an exception
Raised == pc = "raised"
\* the copy / rotate loop has ended normally
ReplicationEnded ==
    pc \in {"group_lamination", "name_lamination", "for_surf", "extrude",
            "group_volume", "name_volume", "synchronize", "generate", "write",
            "finalize", "done"}
\* the extrusion loop has ended normally
ExtrusionEnded ==
    pc \in {"group_volume", "name_volume", "synchronize", "generate", "write",
            "finalize", "done"}

\* the physical groups of dimension d and id i, in creation order
GroupsOf(d, i) == SelectSeq(groups, LAMBDA g : g.dim = d /\ g.id = i)

\* the set of elements of a sequence
Elems(s) == {s[j] : j \in 1..Len(s)}

\* the sequence has no element twice
NoRepeat(s) == \A j, k \in 1..Len(s) : s[j] = s[k] => j = k

\* ================================================================== claims

\* C1 (as stated): for every replication count Zs > 0, when the copy / rotate
\* loop has ended the ordered surface set holds exactly Zs surfaces, the
\* original and Zs - 1 rotated duplicates.
C1_ExactlyNTotalSurfaces ==
    (ReplicationEnded /\ Zs > 0) =>
        /\ Len(surf_list) = Zs
        /\ Len(rotations) = Zs - 1
        /\ surf_list[1] = 1

\* C2 (as stated): the i-th duplicate is rotated by i times the pitch, and
\* the pitch is 2 pi over the replication count Zs:
\* num / den = i / Zs, that is num * Zs = i * den.
C2_PitchMatchesCount ==
    \A j \in 1..Len(rotations) :
        rotations[j].num * Zs = j * rotations[j].den

\* C3 (as stated): at the end of a successful run the dimension 3 group 1
\* holds exactly the volumes of the extrusions, as the contiguous range from
\* 1 whose length is the number of extruded volumes.
C3_VolumeGroupIsAllVolumes ==
    Done =>
        /\ Len(GroupsOf(3, 1)) = 1
        /\ GroupsOf(3, 1)[1].ents = Range(1, Len(extrusions) + 1)
        /\ Elems(GroupsOf(3, 1)[1].ents) = {extrusions[j].vol : j \in 1..Len(extrusions)}

\* the boundary is a mix of lines and arcs
LinesAndArcs == \A k \in 1..Len(lines) : lines[k] \in {"line", "arc"}

\* C4: for a boundary of n >= 1 lines and arcs, once the curve loop is made
\* there are exactly n curves, the loop lists them in creation order, each
\* curve ends at the begin point of the next one, and the last curve ends at
\* handle 1, the handle of the first point created.
C4_LoopClosed ==
    (Len(loops) >= 1 /\ Len(lines) >= 1 /\ LinesAndArcs) =>
        /\ Len(loops) = 1
        /\ Len(curves) = Len(lines)
        /\ loops[1].curves = [k \in 1..Len(curves) |-> curves[k].tag]
        /\ NoRepeat(loops[1].curves)
        /\ \A k \in 1..(Len(curves) - 1) :
              /\ curves[k].end = curves[k + 1].start
              /\ \E q \in 1..Len(points) :
                    /\ points[q].tag = curves[k].end
                    /\ points[q].role = "begin"
                    /\ points[q].seg = k + 1
        /\ curves[Len(curves)].end = 1
        /\ curves[1].start = 1
        /\ points[1] = [tag |-> 1, seg |-> 1, role |-> "begin"]

C4_Witness ==
    /\ Done
    /\ lines = <<"line", "arc", "arc">>
    /\ Len(curves) = 3

\* C5 (as stated): whenever a run that has initialized gmsh has returned
\* control to its caller, normally or by an exception, gmsh is finalized.
C5_FinalizedOnEveryExit ==
    ((Done \/ Raised) /\ initialized) => finalized

\* the boundary holds a segment that is neither a line nor an arc
HasUnknownKind == \E k \in 1..Len(lines) : lines[k] \notin {"line", "arc"}

\* C6 (as stated): with a segment of an unrecognized kind in the boundary
\* the run does not complete, and no point and no curve is ever created.
C6_UnknownKindRejected ==
    HasUnknownKind =>
        /\ ~Done
        /\ points = <<>>
        /\ curves = <<>>

\* the call sites that come before gmsh.write
BeforeWrite == CallSites \ {"write", "finalize"}

\* C7: once a gmsh call has raised, the run is over: the failing call is the
\* last one issued, nothing is created, tagged, meshed or written afterwards,
\* and unless the failing call is write or finalize itself, write was never
\* invoked.
C7_AbortOnFailure ==
    /\ [](failed # "none" =>
            /\ Raised
            /\ failed \in CallSites
            /\ calls[Len(calls)] = failed
            /\ ~finalized
            /\ failed \in BeforeWrite =>
                  /\ ~written
                  /\ "write" \notin Elems(calls)
            /\ failed \in BeforeWrite \ {"generate"} => ~meshed)
    /\ [][failed # "none" => UNCHANGED <<calls, geo, tags, flags>>]_vars

C7_Witness ==
    /\ Raised
    /\ failed = "extrude"
    /\ Len(extrusions) = 2
    /\ ~written

\* C8 (as stated): with Zs <= 0 the run does not complete, and nothing is
\* extruded, no dimension 3 group is tagged, no mesh generated or written.
C8_NonPositiveCountRejected ==
    Zs <= 0 =>
        /\ ~Done
        /\ extrusions = <<>>
        /\ GroupsOf(3, 1) = <<>>
        /\ ~meshed
        /\ ~written

\* C9: the extrude calls are, in order, one per surface of the surface set,
\* each by (0, 0, L) with Nlayer layers, giving volumes with distinct,
\* increasing handles; when the extrusion loop has ended there is exactly
\* one extrusion per surface.
C9_OneExtrusionPerSurface ==
    /\ Len(extrusions) <= Len(surf_list)
    /\ \A j \in 1..Len(extrusions) :
          /\ extrusions[j].surf = surf_list[j]
          /\ extrusions[j].dx = 0
          /\ extrusions[j].dy = 0
          /\ extrusions[j].dz = L
          /\ extrusions[j].numElements = Nlayer
          /\ \A k \in 1..Len(extrusions) :
                j < k => extrusions[j].vol < extrusions[k].vol
    /\ ExtrusionEnded => Len(extrusions) = Len(surf_list)

C9_Witness ==
    /\ Done
    /\ Len(extrusions) = 3
    /\ Nlayer = 2
    /\ L = 2

\* C10: at the end of a successful run the group (2, 2) holds every plane
\* surface created, the original and each copy, in creation order and once
\* each, and the group (2, 1) holds the original surface 1 alone.
C10_SurfaceGroups ==
    Done =>
        /\ Len(GroupsOf(2, 2)) = 1
        /\ GroupsOf(2, 2)[1].ents = surfaces
        /\ NoRepeat(surfaces)
        /\ surfaces[1] = 1
        /\ Len(GroupsOf(2, 1)) = 1
        /\ GroupsOf(2, 1)[1].ents = <<1>>
        /\ \E n1, n2 \in 1..Len(names) :
              /\ names[n1] = [dim |-> 2, id |-> 2, name |-> "Lamination"]
              /\ names[n2] = [dim |-> 2, id |-> 1, name |-> "Tooth"]

C10_Witness ==
    /\ Done
    /\ Len(surfaces) = 3
    /\ Len(rotations) = 2

\* C11: a successful run defines exactly three physical groups, (2, 1),
\* (2, 2) and (3, 1), and sets exactly three names: "Tooth" for (2, 1),
\* "Lamination" for (2, 2), and for (3, 1) "stator" when is_stator is true
\* and "rotor" otherwise; no run ever sets another group or name.
C11_ThreePhysicalGroups ==
    /\ Done =>
          /\ [g \in 1..Len(groups) |-> <<groups[g].dim, groups[g].id>>]
                = << <<2, 1>>, <<2, 2>>, <<3, 1>> >>
          /\ names = << [dim |-> 2, id |-> 1, name |-> "Tooth"],
                        [dim |-> 2, id |-> 2, name |-> "Lamination"],
                        [dim |-> 3, id |-> 1,
                         name |-> IF is_stator THEN "stator" ELSE "rotor"] >>
    /\ \A g \in 1..Len(groups) :
          <<groups[g].dim, groups[g].id>> \in { <<2, 1>>, <<2, 2>>, <<3, 1>> }
    /\ \A m \in 1..Len(names) :
          <<names[m].dim, names[m].id, names[m].name>> \in
              { <<2, 1, "Tooth">>, <<2, 2, "Lamination">>,
                <<3, 1, IF is_stator THEN "stator" ELSE "rotor">> }

C11_Witness ==
    /\ Done
    /\ ~is_stator
    /\ Len(names) = 3
    /\ names[3].name = "rotor"

\* ---- C12: what a run does, written as a function of its inputs alone
\* number of copies a run with these inputs makes
NCopies == IF Zs > 0 THEN Zs ELSE 0
\* number of arcs among the first k segments
ArcsUpTo(k) == Cardinality({j \in 1..k : lines[j] = "arc"})
\* a is an initial part of b
IsPrefix(a, b) == Len(a) <= Len(b) /\ a = SubSeq(b, 1, Len(a))
\* the calls that draw segments k .. n
RECURSIVE DrawCalls(_)
DrawCalls(k) ==
    IF k > Len(lines) THEN <<>>
    ELSE (IF lines[k] = "arc" THEN <<"addCenter", "addCircleArc">> ELSE <<"addLine">>)
         \o DrawCalls(k + 1)
\* the calls of a complete run
ExpectedCalls ==
    <<"initialize", "setNumber", "model_add">>
    \o [j \in 1..Len(lines) |-> "addPoint"]
    \o DrawCalls(1)
    \o <<"addCurveLoop", "addPlaneSurface", "group_tooth", "name_tooth">>
    \o [j \in 1..(2 * NCopies) |-> IF j % 2 = 1 THEN "copy" ELSE "rotate"]
    \o <<"group_lamination", "name_lamination">>
    \o [j \in 1..(NCopies + 1) |-> "extrude"]
    \o <<"group_volume", "name_volume", "synchronize", "generate", "write", "finalize">>
\* the curves of a complete run
ExpectedCurves ==
    [k \in 1..Len(lines) |->
        [kind |-> IF lines[k] = "arc" THEN "arc" ELSE "line",
         start |-> k,
         center |-> IF lines[k] # "arc" THEN 0
                    ELSE IF k = Len(lines) THEN Len(lines) + ArcsUpTo(k) - 1
                    ELSE Len(lines) + ArcsUpTo(k),
         end |-> IF k = Len(lines) THEN 1 ELSE k + 1,
         tag |-> k]]
\* the physical groups of a complete run
ExpectedGroups ==
    << [dim |-> 2, ents |-> <<1>>, id |-> 1],
       [dim |-> 2, ents |-> [j \in 1..(NCopies + 1) |-> j], id |-> 2],
       [dim |-> 3, ents |-> [j \in 1..NCopies |-> j], id |-> 1] >>

\* C12: determinism.  What a run does is a function of its inputs: in every
\* state the calls issued so far are an initial part of the one call sequence
\* the inputs determine, and a completed run has issued exactly that
\* sequence, with the point, curve, surface and volume handles and the
\* physical groups the inputs determine.  Two runs with identical inputs, each
\* on a fresh session, therefore issue identical calls with identical handles
\* and end with identical groups and handle ranges.
C12_Deterministic ==
    /\ IsPrefix(calls, ExpectedCalls)
    /\ Done =>
          /\ calls = ExpectedCalls
          /\ [q \in 1..Len(points) |-> points[q].tag]
                = [q \in 1..(Len(lines) + ArcsUpTo(Len(lines))) |-> q]
          /\ curves = ExpectedCurves
          /\ loops = << [tag |-> 1, curves |-> [k \in 1..Len(lines) |-> k]] >>
          /\ surfaces = [j \in 1..(NCopies + 1) |-> j]
          /\ [j \in 1..Len(rotations) |-> rotations[j].surf]
                = [j \in 1..NCopies |-> j + 1]
          /\ [j \in 1..Len(extrusions) |-> <<extrusions[j].surf, extrusions[j].vol>>]
                = [j \in 1..(NCopies + 1) |-> <<j, j>>]
          /\ groups = ExpectedGroups

C12_Witness ==
    /\ Done
    /\ lines = <<"arc", "line", "arc">>
    /\ Zs = 2
    /\ Len(calls) = 30

\* C13 (as stated): with an empty boundary the run does not complete, and
\* no curve loop, plane surface or physical group is created.
C13_EmptyBoundaryRejected ==
    Len(lines) = 0 =>
        /\ ~Done
        /\ loops = <<>>
        /\ surfaces = <<>>
        /\ groups = <<>>

\* C14 (as stated): every arc curve, the last one included, goes from the
\* begin point of its segment, around the point created for the center of
\* that same segment, to the begin point of the next segment (handle 1 for
\* the last segment).
C14_ArcThroughOwnCenter ==
    \A c \in 1..Len(curves) :
        curves[c].kind = "arc" =>
            /\ curves[c].start = curves[c].tag
            /\ curves[c].end = IF curves[c].tag = Len(lines) THEN 1 ELSE curves[c].tag + 1
            /\ \E q \in 1..Len(points) :
                  /\ points[q].tag = curves[c].center
                  /\ points[q].role = "center"
                  /\ points[q].seg = curves[c].tag

\* ---- C15: the stages of a run
Stage(site) ==
    CASE site = "initialize" -> 0
      [] site = "setNumber" -> 1
      [] site = "model_add" -> 2
      [] site \in {"addPoint", "addCenter", "addCircleArc", "addLine"} -> 3
      [] site = "addCurveLoop" -> 4
      [] site = "addPlaneSurface" -> 5
      [] site = "group_tooth" -> 6
      [] site = "name_tooth" -> 7
      [] site \in {"copy", "rotate"} -> 8
      [] site = "group_lamination" -> 9
      [] site = "name_lamination" -> 10
      [] site = "extrude" -> 11
      [] site = "group_volume" -> 12
      [] site = "name_volume" -> 13
      [] site = "synchronize" -> 14
      [] site = "generate" -> 15
      [] site = "write" -> 16
      [] site = "finalize" -> 17
\* the stages that issue more than one call
LoopStages == {Stage("addPoint"), Stage("copy"), Stage("extrude")}
\* the positions of a call site in the call log
Positions(site) == {j \in 1..Len(calls) : calls[j] = site}

\* C15: the calls of a run are in forward stage order: initialize; the
\* points and curves; curve loop, plane surface and the "Tooth" tag; the
\* copies and rotations and the "Lamination" tag; the extrusions; the
\* dimension 3 tag; synchronize; generate; write; finalize.  Each call is of
\* the stage of the call before it or of a later one, so no call of an
\* earlier stage follows one of a later stage; write is issued at most once,
\* and a completed run issued it exactly once, after generate and before
\* finalize.
C15_ForwardStageOrder ==
    /\ \A i \in 1..(Len(calls) - 1) :
          \/ Stage(calls[i]) < Stage(calls[i + 1])
          \/ Stage(calls[i]) = Stage(calls[i + 1]) /\ Stage(calls[i]) \in LoopStages
    /\ Len(calls) > 0 => calls[1] = "initialize"
    /\ Cardinality(Positions("write")) <= 1
    /\ written => Positions("generate") # {} /\ Positions("synchronize") # {}
    /\ Done =>
          /\ Cardinality(Positions("write")) = 1
          /\ Cardinality(Positions("generate")) = 1
          /\ Cardinality(Positions("finalize")) = 1
          /\ \A w \in Positions("write") :
                /\ \A g \in Positions("generate") : g < w
                /\ \A f \in Positions("finalize") : w < f

C15_Witness ==
    /\ Done
    /\ Len(lines) = 2
    /\ Len(rotations) = 2
    /\ Len(extrusions) = 3

\* C16: point handles are 1, 2, 3, ... in creation order, none twice; the
\* begin point of segment k has handle k; an arc center takes the next
\* unused handle; once the curves are drawn there are as many points as
\* segments plus arcs; and every point handle a curve refers to is the
\* handle of a point that exists when the curve is created.
C16_PointHandles ==
    /\ \A q \in 1..Len(points) :
          /\ points[q].tag = q
          /\ points[q].role = "begin" => points[q].seg = q /\ q <= Len(lines)
          /\ points[q].role = "center" => lines[points[q].seg] = "arc" /\ q > Len(lines)
    /\ Len(loops) >= 1 => Len(points) = Len(lines) + ArcsUpTo(Len(lines))
    /\ \A c \in 1..Len(curves) :
          /\ curves[c].start \in 1..Len(points)
          /\ curves[c].end \in 1..Len(points)
          /\ curves[c].kind = "arc" => curves[c].center \in 1..Len(points)

C16_Witness ==
    /\ Done
    /\ lines = <<"arc", "line", "arc">>
    /\ Len(points) = 5

\* ===========================================================================
\* The material dialog DMatSetup
\* ===========================================================================
\* material names, as the number of the name
Names == 1..MaxNames
\* directories of material files: the material library by its absolute path,
\* the material library by its variable, and a directory outside of it
Dirs == {"/matlib", "<MATLIB_DIR>", "/elsewhere"}
\* the directory a directory string stands for
DirOf(d) == IF d = "<MATLIB_DIR>" THEN "/matlib" ELSE d
\* the classes of the five parts of a Material
PartClass ==
    [elec |-> "MatElectrical", eco |-> "MatEconomical", HT |-> "MatHT",
     struct |-> "MatStructural", mag |-> "MatMagnetics"]
Parts == DOMAIN PartClass
\* the parts of a material that are None: no part, one part, or all of them
NoneSets == {{}} \cup {{part} : part \in Parts} \cup {Parts}
\* what a numeric widget may hold
Values == 0..MaxVal
\* the moduli are shown in GPa and stored in Pa
GPa == 1000000000
\* the numeric fields of a material the model follows, by the name of their
\* handler: elec.rho, HT.lambda_x .. lambda_z, struct.Ex .. struct.nu_yz
NumFields ==
    {"rho_elec", "lambda_x", "lambda_y", "lambda_z", "Ex", "Ey", "Ez",
     "Gxy", "Gxz", "Gyz", "nu_xy", "nu_xz", "nu_yz"}
\* what is stored for one unit of the widget of a field
Unit(field) ==
    IF field \in {"Ex", "Ey", "Ez", "Gxy", "Gxz", "Gyz"} THEN GPa ELSE 1
\* the classes mag.BH_curve may have: ImportMatrix stands for every
\* ImportMatrix that is neither an ImportMatrixVal nor an ImportMatrixXls
CurveKinds == {"ImportMatrixVal", "ImportMatrixXls", "ImportMatrix", "None"}
\* mag.BH_curve: its class and the table get_data() gives, as a number
Curve(kind, data) == [kind |-> kind, data |-> data]
\* record m with the fields of f added or replaced
WithFields(m, f) ==
    [k \in DOMAIN m \cup DOMAIN f |-> IF k \in DOMAIN f THEN f[k] ELSE m[k]]
\* every numeric field at 0 and an ImportMatrix as BH_curve
ZeroFields ==
    WithFields([BH_curve |-> Curve("ImportMatrix", 0)], [f \in NumFields |-> 0])

\* the materials a caller may hand to the dialog; the file of a material is
\* named after it, and the numeric fields are all 0
Materials ==
    {WithFields(
        [name |-> n, path |-> [dir |-> d, name |-> n], is_isotropic |-> iso,
         elec |-> IF "elec" \in ns THEN "None" ELSE PartClass.elec,
         eco |-> IF "eco" \in ns THEN "None" ELSE PartClass.eco,
         HT |-> IF "HT" \in ns THEN "None" ELSE PartClass.HT,
         struct |-> IF "struct" \in ns THEN "None" ELSE PartClass.struct,
         mag |-> IF "mag" \in ns THEN "None" ELSE PartClass.mag],
        ZeroFields) :
        n \in Names, d \in Dirs, iso \in BOOLEAN, ns \in NoneSets}

\* the mesh generator is not running
MeshIdle ==
    /\ lines = <<>> /\ L = 1 /\ Zs = 0 /\ is_stator = FALSE /\ Nlayer = 1
    /\ pc = "initialize"
    /\ NPoint = 0 /\ NLine = 0 /\ ii = -1 /\ ov = 0
    /\ surf_list = <<>> /\ surf_idx = 0
    /\ initialized = FALSE /\ finalized = FALSE
    /\ points = <<>> /\ curves = <<>> /\ loops = <<>> /\ surfaces = <<>>
    /\ rotations = <<>> /\ extrusions = <<>>
    /\ groups = <<>> /\ names = <<>>
    /\ synced = FALSE /\ meshed = FALSE /\ written = FALSE
    /\ calls = <<>>
    /\ failed = "none"

\* rel_file_path(path, "MATLIB_DIR"): the same file, with the material library
\* directory written as its variable
RelFilePath(path) ==
    [path EXCEPT !.dir = IF @ = "/matlib" THEN "<MATLIB_DIR>" ELSE @]

\* variant: the path is not updated
NewPathKeep(path, file_name) == path

\* rel_file_path(join(dirname(self.mat.path), file_name + ".json"), "MATLIB_DIR")
NewPath(path, file_name) == RelFilePath([dir |-> path.dir, name |-> file_name])

\* variant: the typed text stays in the line edit
RevertNameKeepText(text, init) == text

\* self.le_name.setText(self.init_name) when a rename is given up
RevertName(text, init) == init

\* text of the material type combo box at an index
ComboText(idx) == IF idx = 1 THEN "Isotropic" ELSE "Orthotropic"

\* one emitted signal, with what the dialog holds when it is emitted;
\* blocked: self.blockSignals(True) is in force, no slot receives it
Emit(sig, blocked, m, dirty) ==
    [sig |-> sig, delivered |-> ~blocked,
     name |-> IF m = NoMat THEN 0 ELSE m.name,
     path |-> IF m = NoMat THEN NoPath ELSE m.path,
     dirty |-> dirty]

\* variant: the signal is sent whether or not the value changes
SaveNeededSignalAlways(old, v, blocked, m) ==
    <<Emit("saveNeededChanged", blocked, m, v)>>

\* set_save_needed: the signal sent when the flag goes from old to v
SaveNeededSignal(old, v, blocked, m) ==
    IF v # old THEN <<Emit("saveNeededChanged", blocked, m, v)>> ELSE <<>>

\* set_save_needed: the flag and the two buttons
SaveNeededWidgets(v) ==
    /\ is_save_needed' = v
    /\ b_save' = v
    /\ b_cancel' = v

\* set_is_isotropic: the material after the combo box went to index idx
IsotropicFromCombo(m, idx) ==
    IF ComboText(idx) = "Isotropic" THEN [m EXCEPT !.is_isotropic = TRUE]
    ELSE IF ComboText(idx) = "Orthotropic" THEN [m EXCEPT !.is_isotropic = FALSE]
    ELSE m

\* set_is_isotropic: the page shown for the combo box index idx
NavIndex(idx) == IF ComboText(idx) = "Isotropic" THEN 1 ELSE 0

\* variant: the magnetic part is not checked
WithDefaultsNoMag(m) ==
    [part \in DOMAIN m |->
        IF part \in Parts \ {"mag"} /\ m[part] = "None" THEN PartClass[part] ELSE m[part]]

\* set_default on each part of the material that is None
WithDefaults(m) ==
    [part \in DOMAIN m |->
        IF part \in Parts /\ m[part] = "None" THEN PartClass[part] ELSE m[part]]

\* set_material: a BH_curve read from an xls file becomes an ImportMatrixVal
\* of the same table
LoadTable(m) ==
    IF m.BH_curve.kind = "ImportMatrixXls"
    THEN [m EXCEPT !.BH_curve = Curve("ImportMatrixVal", m.BH_curve.data)]
    ELSE m

\* set_material(material, is_save_needed = v); conn: the combo box signal is
\* connected to set_is_isotropic
set_material(material, v, conn) ==
    LET idx == IF material.is_isotropic THEN 1 ELSE 0
        \* setCurrentIndex sends currentIndexChanged when the index changes
        fired == conn /\ idx # cb_material_type
        m1 == IF fired THEN IsotropicFromCombo(material, idx) ELSE material
        dirty1 == IF fired THEN TRUE ELSE is_save_needed
        sig1 == IF fired THEN SaveNeededSignal(is_save_needed, TRUE, FALSE, m1) ELSE <<>>
        m2 == LoadTable(WithDefaults(m1))
    IN  /\ mat' = m2
        /\ init_name' = material.name
        /\ init_path' = material.path
        /\ le_name' = material.name
        /\ cb_material_type' = idx
        /\ nav_meca' = IF fired THEN NavIndex(idx) ELSE nav_meca
        /\ nav_ther' = IF fired THEN NavIndex(idx) ELSE nav_ther
        /\ SaveNeededWidgets(v)
        /\ emitted' = sig1 \o SaveNeededSignal(dirty1, v, TRUE, m2)
        /\ last' = [NoStep EXCEPT !.op = "set_material", !.v = v, !.fired = fired,
                                  !.material = material]

\* DMatSetup(material = None) up to the creation of the widgets: the state of
\* the widgets is the one of the .ui file
InitMat ==
    /\ MeshIdle
    /\ connected = FALSE
    /\ is_save_needed = FALSE
    /\ init_name = 0 /\ init_path = NoPath
    /\ mat = NoMat
    /\ le_name = 0
    /\ cb_material_type \in {0, 1}
    /\ nav_meca \in {0, 1} /\ nav_ther \in {0, 1}
    /\ b_save \in BOOLEAN /\ b_cancel \in BOOLEAN
    /\ emitted = <<>>
    /\ last = NoStep

\* the rest of __init__: set the initial material if there is one, then
\* connect the signals
Construct ==
    /\ ~connected
    /\ \E material \in Materials \cup {NoMat} :
          IF material = NoMat
          THEN /\ UNCHANGED <<is_save_needed, init_name, init_path, mat, le_name,
                              cb_material_type, nav_meca, nav_ther, b_save, b_cancel,
                              emitted>>
               /\ last' = [NoStep EXCEPT !.op = "construct"]
          ELSE set_material(material, FALSE, FALSE)
    /\ connected' = TRUE
    /\ UNCHANGED mesh

\* DMatLib calls set_material
SetMaterial ==
    /\ connected
    /\ \E material \in Materials, v \in BOOLEAN : set_material(material, v, TRUE)
    /\ UNCHANGED <<connected, mesh>>

\* DMatLib calls set_save_needed
SetSaveNeeded ==
    /\ connected
    /\ \E v \in BOOLEAN :
          /\ SaveNeededWidgets(v)
          /\ emitted' = SaveNeededSignal(is_save_needed, v, FALSE, mat)
          /\ last' = [NoStep EXCEPT !.op = "set_save_needed", !.v = v]
    /\ UNCHANGED <<connected, init_name, init_path, mat, le_name, cb_material_type,
                   nav_meca, nav_ther, mesh>>

\* the user types a name and leaves the line edit: set_name
SetName ==
    /\ connected
    /\ mat # NoMat
    /\ \E file_name \in Names, reply \in {"Yes", "No"}, exists \in BOOLEAN :
          /\ last' = [NoStep EXCEPT !.op = "set_name", !.text = file_name,
                                    !.reply = reply, !.exists = exists]
          /\ IF file_name = init_name
             THEN /\ le_name' = file_name
                  /\ emitted' = <<>>
                  /\ UNCHANGED <<mat, is_save_needed, b_save, b_cancel>>
             ELSE IF reply = "No" \/ exists
             THEN /\ le_name' = RevertName(file_name, init_name)
                  /\ emitted' = <<>>
                  /\ UNCHANGED <<mat, is_save_needed, b_save, b_cancel>>
             ELSE /\ mat' = [mat EXCEPT !.name = file_name,
                                        !.path = NewPath(mat.path, file_name)]
                  /\ le_name' = file_name
                  /\ SaveNeededWidgets(FALSE)
                  /\ emitted' = SaveNeededSignal(is_save_needed, FALSE, FALSE, mat')
                                \o <<Emit("materialToRename", FALSE, mat', FALSE)>>
    /\ UNCHANGED <<connected, init_name, init_path, cb_material_type, nav_meca,
                   nav_ther, mesh>>

\* the user picks another material type: set_is_isotropic
SetIsIsotropic ==
    /\ connected
    /\ mat # NoMat
    /\ \E idx \in {0, 1} :
          /\ idx # cb_material_type
          /\ cb_material_type' = idx
          /\ mat' = IsotropicFromCombo(mat, idx)
          /\ nav_meca' = NavIndex(idx)
          /\ nav_ther' = NavIndex(idx)
          /\ SaveNeededWidgets(TRUE)
          /\ emitted' = SaveNeededSignal(is_save_needed, TRUE, FALSE, mat')
          /\ last' = [NoStep EXCEPT !.op = "set_is_isotropic"]
    /\ UNCHANGED <<connected, init_name, init_path, le_name, mesh>>

NextMat ==
    \/ Construct
    \/ SetMaterial
    \/ SetSaveNeeded
    \/ SetName
    \/ SetIsIsotropic

SpecMat == InitMat /\ [][NextMat]_vars

\* the saveNeededChanged signals among a sequence of emitted signals
SaveNeededChangedIn(sigs) == SelectSeq(sigs, LAMBDA e : e.sig = "saveNeededChanged")
\* the materialToRename signals among a sequence of emitted signals
MaterialToRenameIn(sigs) == SelectSeq(sigs, LAMBDA e : e.sig = "materialToRename")

\* C17: set_save_needed(v) sends saveNeededChanged exactly once when v is
\* not the previous is_save_needed and does not send it when v is the
\* previous value, and in both cases leaves is_save_needed = v; checked for
\* the direct call and for the calls made by set_is_isotropic (v = True) and
\* by an accepted rename (v = False).
C17_SaveNeededSignalOnChange ==
    [][ LET v == CASE last'.op = "set_save_needed" -> last'.v
                   [] last'.op = "set_is_isotropic" -> TRUE
                   [] OTHER -> FALSE
        IN  (\/ last'.op \in {"set_save_needed", "set_is_isotropic"}
             \/ /\ last'.op = "set_name"
                /\ MaterialToRenameIn(emitted') # <<>>) =>
                /\ is_save_needed' = v
                /\ Len(SaveNeededChangedIn(emitted')) =
                      IF v # is_save_needed THEN 1 ELSE 0
                /\ \A e \in 1..Len(emitted') :
                      emitted'[e].sig = "saveNeededChanged" =>
                          emitted'[e].delivered /\ emitted'[e].dirty = v
      ]_vars

C17_Witness ==
    /\ last.op = "set_save_needed"
    /\ last.v = FALSE
    /\ ~is_save_needed
    /\ Len(emitted) = 1
    /\ emitted[1].sig = "saveNeededChanged"

\* C18: when the typed name differs from init_name and the user declines
\* the rename, or a file with the new name exists, set_name leaves mat
\* (name and path included) and is_save_needed unchanged, puts init_name
\* back in the line edit, and sends no signal.
C18_RenameGivenUp ==
    [][ (/\ last'.op = "set_name"
         /\ last'.text # init_name
         /\ (last'.reply = "No" \/ last'.exists)) =>
            /\ mat'.name = mat.name
            /\ mat'.path = mat.path
            /\ mat' = mat
            /\ is_save_needed' = is_save_needed
            /\ b_save' = b_save /\ b_cancel' = b_cancel
            /\ le_name' = init_name
            /\ MaterialToRenameIn(emitted') = <<>>
            /\ SaveNeededChangedIn(emitted') = <<>>
      ]_vars

C18_Witness ==
    /\ last.op = "set_name"
    /\ last.reply = "Yes"
    /\ last.exists
    /\ last.text # init_name
    /\ le_name = init_name
    /\ is_save_needed

\* C19: when the typed name differs from init_name, the user confirms and
\* no file with that name exists, set_name sets mat.name to the typed name
\* and mat.path to the file of that name in the same directory, ends with
\* is_save_needed False and both buttons disabled, and sends materialToRename
\* exactly once, as the last signal, when name, path and flag are updated.
C19_RenameAccepted ==
    [][ (/\ last'.op = "set_name"
         /\ last'.text # init_name
         /\ last'.reply = "Yes"
         /\ ~last'.exists) =>
            /\ mat'.name = last'.text
            /\ mat'.path.name = last'.text
            /\ DirOf(mat'.path.dir) = DirOf(mat.path.dir)
            /\ mat' = [mat EXCEPT !.name = mat'.name, !.path = mat'.path]
            /\ ~is_save_needed' /\ ~b_save' /\ ~b_cancel'
            /\ Len(MaterialToRenameIn(emitted')) = 1
            /\ emitted'[Len(emitted')] =
                  [sig |-> "materialToRename", delivered |-> TRUE,
                   name |-> mat'.name, path |-> mat'.path, dirty |-> FALSE]
      ]_vars

C19_Witness ==
    /\ last.op = "set_name"
    /\ last.reply = "Yes"
    /\ ~last.exists
    /\ last.text # init_name
    /\ mat.name = last.text
    /\ Len(emitted) = 2
    /\ emitted[1].sig = "saveNeededChanged"
    /\ emitted[2].sig = "materialToRename"

\* C20: when set_material(material, is_save_needed = v) returns,
\* is_save_needed = v and the save and cancel buttons are enabled exactly
\* when v is true, whatever the dialog held before and whether or not the
\* combo box ran set_is_isotropic meanwhile; and the five parts of mat are
\* not None.  (The constructor's set_material is the case v = False.)
C20_SetMaterialEndState ==
    last.op = "set_material" =>
        /\ is_save_needed = last.v
        /\ b_save = last.v
        /\ b_cancel = last.v
        /\ mat.name = last.material.name
        /\ \A part \in Parts : mat[part] # "None"

C20_Witness ==
    /\ last.op = "set_material"
    /\ last.fired
    /\ ~last.v
    /\ ~is_save_needed
    /\ last.material.mag = "None"
    /\ mat.mag = "MatMagnetics"
    /\ Len(emitted) = 2
    /\ emitted[1].delivered
    /\ ~emitted[2].delivered

\* C21 (as stated): after set_material and after every set_name that
\* follows it, however it ends, the name line edit shows mat.name.
C21_LineEditShowsName ==
    (mat # NoMat /\ last.op \in {"construct", "set_material", "set_name"}) =>
        le_name = mat.name

\* ---------------------------------------------------------------------------
\* Editing the values of a material: materials are set in a dialog that was
\* constructed without one, and the user edits them
\* ---------------------------------------------------------------------------
\* the classes and tables of BH_curve among the edited materials
EditCurves ==
    {Curve(k, d) : k \in {"ImportMatrixVal", "ImportMatrixXls"}, d \in Values}
        \cup {Curve("ImportMatrix", 0), Curve("None", 0)}

\* a material with every part, whose numeric fields hold b units, but for the
\* field odd that holds o units
EditMaterial(b, odd, o, iso, bh) ==
    WithFields(
        [name |-> 1, path |-> [dir |-> "/matlib", name |-> 1], is_isotropic |-> iso,
         elec |-> PartClass.elec, eco |-> PartClass.eco, HT |-> PartClass.HT,
         struct |-> PartClass.struct, mag |-> PartClass.mag],
        WithFields([BH_curve |-> bh],
                   [f \in NumFields |-> (IF f = odd THEN o ELSE b) * Unit(f)]))

\* the edited materials: at most one numeric field is unlike the others, and
\* then the material is orthotropic and BH_curve is an empty table
EditMaterials ==
    {EditMaterial(b, odd, o, FALSE, Curve("ImportMatrixVal", 0)) :
        b \in Values, odd \in NumFields, o \in Values}
    \cup {EditMaterial(b, "none", b, iso, bh) :
            b \in Values, iso \in BOOLEAN, bh \in EditCurves}

\* the field each handler of a single value compares and assigns
ScalarField == [set_rho_elec |-> "rho_elec", set_nu_yz |-> "nu_yz"]

\* the three fields each handler of an isotropic value assigns; it compares
\* the first one
IsoFields ==
    [set_lambda |-> <<"lambda_x", "lambda_y", "lambda_z">>,
     set_E |-> <<"Ex", "Ey", "Ez">>,
     set_G |-> <<"Gxy", "Gxz", "Gyz">>,
     set_nu |-> <<"nu_xy", "nu_xz", "nu_yz">>]

\* what an edit handler leaves alone besides the material and the flag
EditFrame ==
    UNCHANGED <<connected, init_name, init_path, le_name, cb_material_type,
                nav_meca, nav_ther, mesh>>

\* if self.mat.<field> != widget.value(): assign it and set_save_needed(True)
set_scalar(h, w) ==
    LET field == ScalarField[h]
        x == w * Unit(field)
    IN  /\ IF mat[field] # x
           THEN /\ mat' = [mat EXCEPT ![field] = x]
                /\ SaveNeededWidgets(TRUE)
                /\ emitted' = SaveNeededSignal(is_save_needed, TRUE, FALSE, mat')
           ELSE /\ emitted' = <<>>
                /\ UNCHANGED <<mat, is_save_needed, b_save, b_cancel>>
        /\ last' = [NoStep EXCEPT !.op = h, !.text = w]
        /\ EditFrame

\* if self.mat.<first field> != widget.value(): assign the three fields and
\* set_save_needed(True)
set_iso(h, w) ==
    LET fields == IsoFields[h]
        x == w * Unit(fields[1])
    IN  /\ IF mat[fields[1]] # x
           THEN /\ mat' = [mat EXCEPT ![fields[1]] = x, ![fields[2]] = x,
                                      ![fields[3]] = x]
                /\ SaveNeededWidgets(TRUE)
                /\ emitted' = SaveNeededSignal(is_save_needed, TRUE, FALSE, mat')
           ELSE /\ emitted' = <<>>
                /\ UNCHANGED <<mat, is_save_needed, b_save, b_cancel>>
        /\ last' = [NoStep EXCEPT !.op = h, !.text = w]
        /\ EditFrame

\* DMatSetup(material = None) when __init__ returns: no material, the signals
\* connected
InitEdit ==
    /\ MeshIdle
    /\ connected = TRUE
    /\ is_save_needed = FALSE
    /\ init_name = 0 /\ init_path = NoPath
    /\ mat = NoMat
    /\ le_name = 0
    /\ cb_material_type \in {0, 1}
    /\ nav_meca = 0 /\ nav_ther = 0
    /\ b_save = FALSE /\ b_cancel = FALSE
    /\ emitted = <<>>
    /\ last = [NoStep EXCEPT !.op = "construct"]

\* DMatLib sets the material to edit
LoadMaterial ==
    /\ connected
    /\ \E material \in EditMaterials, v \in BOOLEAN : set_material(material, v, TRUE)
    /\ UNCHANGED <<connected, mesh>>

\* the user leaves lf_rho_elec holding w
SetRhoElec ==
    /\ connected /\ mat # NoMat
    /\ \E w \in Values : set_scalar("set_rho_elec", w)

\* the user leaves lf_nu_yz holding w
SetNuYz ==
    /\ connected /\ mat # NoMat
    /\ \E w \in Values : set_scalar("set_nu_yz", w)

\* the user leaves lf_L holding w
SetLambda ==
    /\ connected /\ mat # NoMat
    /\ \E w \in Values : set_iso("set_lambda", w)

\* the user leaves lf_E holding w
SetE ==
    /\ connected /\ mat # NoMat
    /\ \E w \in Values : set_iso("set_E", w)

\* the user leaves lf_G holding w
SetG ==
    /\ connected /\ mat # NoMat
    /\ \E w \in Values : set_iso("set_G", w)

\* the user leaves lf_nu holding w
SetNu ==
    /\ connected /\ mat # NoMat
    /\ \E w \in Values : set_iso("set_nu", w)

\* tab_values sends saveNeeded with the table w: set_table_values
SetTableValues ==
    /\ connected /\ mat # NoMat
    /\ \E w \in Values :
          /\ IF mat.BH_curve.kind = "ImportMatrixVal"
             THEN IF mat.BH_curve.data # w
                  THEN /\ mat' = [mat EXCEPT !.BH_curve.data = w]
                       /\ SaveNeededWidgets(TRUE)
                       /\ emitted' = SaveNeededSignal(is_save_needed, TRUE, FALSE, mat')
                  ELSE /\ emitted' = <<>>
                       /\ UNCHANGED <<mat, is_save_needed, b_save, b_cancel>>
             ELSE IF mat.BH_curve.kind \in {"ImportMatrixXls", "ImportMatrix"}
             THEN /\ mat' = [mat EXCEPT !.BH_curve = Curve("ImportMatrixVal", w)]
                  /\ SaveNeededWidgets(TRUE)
                  /\ emitted' = SaveNeededSignal(is_save_needed, TRUE, FALSE, mat')
             ELSE /\ emitted' = <<>>
                  /\ UNCHANGED <<mat, is_save_needed, b_save, b_cancel>>
          /\ last' = [NoStep EXCEPT !.op = "set_table_values", !.text = w]
    /\ EditFrame

NextEdit ==
    \/ LoadMaterial
    \/ SetIsIsotropic
    \/ SetRhoElec
    \/ SetNuYz
    \/ SetLambda
    \/ SetE
    \/ SetG
    \/ SetNu
    \/ SetTableValues

SpecEdit == InitEdit /\ [][NextEdit]_vars

\* the handlers of a numeric widget, and the field each compares with it
EditOps == DOMAIN ScalarField \cup DOMAIN IsoFields
ComparedField(h) ==
    IF h \in DOMAIN ScalarField THEN ScalarField[h] ELSE IsoFields[h][1]

\* the saveNeededChanged signals of a sequence that reach a slot
DeliveredSaveNeeded(sigs) ==
    SelectSeq(sigs, LAMBDA e : e.sig = "saveNeededChanged" /\ e.delivered)

\* C22 (as stated): an edit handler whose widget holds the stored value
\* changes neither the material nor is_save_needed and sends no
\* saveNeededChanged; one whose widget holds another value stores it and
\* sets is_save_needed. set_is_isotropic also runs inside set_material, when
\* setCurrentIndex moves the combo box to the type of the material just set.
C22_EditHandlerFrame ==
    [][/\ last'.op \in EditOps =>
            LET field == ComparedField(last'.op)
                x == last'.text * Unit(field)
            IN  IF mat[field] = x
                THEN /\ mat' = mat
                     /\ is_save_needed' = is_save_needed
                     /\ SaveNeededChangedIn(emitted') = <<>>
                ELSE /\ mat'[field] = x
                     /\ is_save_needed'
       /\ last'.op = "set_table_values" =>
            LET x == Curve("ImportMatrixVal", last'.text)
            IN  IF mat.BH_curve = x
                THEN /\ mat' = mat
                     /\ is_save_needed' = is_save_needed
                     /\ SaveNeededChangedIn(emitted') = <<>>
                ELSE /\ mat'.BH_curve = x
                     /\ is_save_needed'
       /\ last'.op = "set_is_isotropic" =>
            LET x == ComboText(cb_material_type') = "Isotropic"
            IN  IF mat.is_isotropic = x
                THEN /\ mat' = mat
                     /\ is_save_needed' = is_save_needed
                     /\ SaveNeededChangedIn(emitted') = <<>>
                ELSE /\ mat'.is_isotropic = x
                     /\ is_save_needed'
       /\ (last'.op = "set_material" /\ last'.fired) =>
            DeliveredSaveNeeded(emitted') = <<>>
      ]_vars

\* C23 (as stated): after set_lambda, set_E, set_G or set_nu the three fields
\* of the handler all hold the value of its widget, whatever they held before.
C23_IsotropicComponentsEqual ==
    last.op \in DOMAIN IsoFields =>
        \A i \in 1..3 :
            mat[IsoFields[last.op][i]] = last.text * Unit(IsoFields[last.op][1])

====
